---- MODULE Spec2Model ----
(***************************************************************************)
(* Model of tools/latency.py: the transition extractor                     *)
(* (build_transitions_array), the SBUS frame assembler and decoder         *)
(* (SBusFrame) and the latency correlator, statistics and export           *)
(* (LatencyStatistics).                                                    *)
(*                                                                         *)
(* Times are integer microseconds: the program's float milliseconds        *)
(* multiplied by 1000.  0.002 ms is 2, 2 ms is 2000, 0.12 ms is 120.       *)
(* A transition is the pair <<t, level>>, a frame is the sequence of its   *)
(* transitions, a text is a sequence of one-character strings.             *)
(***************************************************************************)
EXTENDS Integers, Sequences, FiniteSets, TLC

VARIABLES
    pc,                 \* position of the running function
    rows,               \* build_transitions_array: rows of the csv reader
    i,                  \* build_transitions_array: loop index
    last,               \* build_transitions_array: last emitted value
    transitions,        \* build_transitions_array: candidate transitions
    debounced,          \* build_transitions_array: result
    gf_transitions,     \* get_frames: the argument
    gf_k,               \* get_frames: number of transitions consumed
    result,             \* get_frames: result
    current_frame,      \* get_frames: <<>> is None, <<f>> is the frame f
    gf_last,            \* get_frames: last
    enc,                \* decoding: what the frame under test was built from
    dframe,             \* decoding: the frame under test
    returned,           \* decoding: the values byte(23) returned, in call order
    lost,               \* decoding: <<>> or <<v>>, v the value is_lost() returned
    trigger_transitions, sbus_frames, highval, lowval,  \* LatencyStatistics fields
    pos,                \* iter: index of the next trigger transition to examine
    yielded,            \* iter: the tuples yielded so far
    count, total, mini, maxi,   \* print: locals (<<>> is None)
    stdout,             \* print: the lines printed
    existing,           \* export: the file at path before the call, <<>> or <<text>>
    path_exists,        \* export: os.path.exists(path)
    path_content,       \* export: the text of the file at path
    title, append,      \* export: arguments
    lines, columns, index   \* export: locals

extract_vars == <<rows, i, last, transitions, debounced>>
frames_vars == <<gf_transitions, gf_k, result, current_frame, gf_last>>
decode_vars == <<enc, dframe, returned, lost>>
object_vars == <<trigger_transitions, sbus_frames, highval, lowval>>
iter_vars == <<pos, yielded>>
print_vars == <<count, total, mini, maxi, stdout>>
export_vars == <<existing, path_exists, path_content, title, append, lines, columns, index>>
stats_vars == <<object_vars, iter_vars, print_vars, export_vars>>
vars == <<pc, extract_vars, frames_vars, decode_vars, stats_vars>>

----------------------------------------------------------------------------
(* Bounds of the model *)
MaxRows == 5
MaxTransitions == 4
MaxCalls == 2
MaxTriggers == 3
MaxFrames == 2
MaxFileLen == 4

(* Program constants *)
DebounceWindow == 2
FrameGap == 2000
BytePeriod == 120
FirstBitOffset == 15
BitPeriod == 10
LostMask == 4
StatusByte == 23
ChannelByte == 1

----------------------------------------------------------------------------
(* Helpers on sequences *)
RECURSIVE SeqsUpTo(_, _)
SeqsUpTo(S, n) ==
    IF n = 0 THEN {<<>>}
    ELSE LET shorter == SeqsUpTo(S, n - 1)
         IN shorter \cup {Append(s, x) : s \in {q \in shorter : Len(q) = n - 1}, x \in S}

Range(s) == {s[n] : n \in 1..Len(s)}

----------------------------------------------------------------------------
(* build_transitions_array *)

Header == <<"time", "level">>

\* int(value) of a csv field
ToInt(value) == CASE value = "0" -> 0 [] value = "1" -> 1

RowGaps == {1, 2}

\* time-ordered data rows: the first at 0, then gaps drawn from RowGaps
RECURSIVE DataRows(_)
DataRows(n) ==
    IF n = 0 THEN {<<>>}
    ELSE LET shorter == DataRows(n - 1)
         IN shorter \cup
            {Append(s, <<(IF Len(s) = 0 THEN 0 ELSE s[Len(s)][1] + g), v>>) :
                s \in {q \in shorter : Len(q) = n - 1}, g \in RowGaps, v \in {"0", "1"}}

IdleExtract ==
    /\ rows = <<>>
    /\ i = 0
    /\ last = "None"
    /\ transitions = <<>>
    /\ debounced = <<>>

InitExtract ==
    /\ rows \in {<<Header>> \o d : d \in DataRows(MaxRows)}
    /\ i = 0
    /\ last = "None"
    /\ transitions = <<>>
    /\ debounced = <<>>

\* one iteration of "for i, row in enumerate(reader)"
ReadRow ==
    /\ pc = "read"
    /\ i < Len(rows)
    /\ LET row == rows[i + 1]
           value == row[2]
       IN IF i = 0
          THEN UNCHANGED <<last, transitions>>
          ELSE IF last = "None" \/ value # last
               THEN /\ transitions' = Append(transitions, <<row[1], ToInt(value)>>)
                    /\ last' = value
               ELSE UNCHANGED <<last, transitions>>
    /\ i' = i + 1
    /\ UNCHANGED <<pc, rows, debounced, frames_vars, decode_vars, stats_vars>>

\* the reader is exhausted: debounced = [], i = 0
ReadEnd ==
    /\ pc = "read"
    /\ i = Len(rows)
    /\ debounced' = <<>>
    /\ i' = 0
    /\ pc' = "debounce"
    /\ UNCHANGED <<rows, last, transitions, frames_vars, decode_vars, stats_vars>>

\* the test of line 44, on the 0-based index n
IsGlitch(tr, n) ==
    /\ n < Len(tr) - 1
    /\ tr[n + 2][1] - tr[n + 1][1] < DebounceWindow

DebounceStep_DropOne ==
    /\ pc = "debounce"
    /\ i < Len(transitions)
    /\ IF IsGlitch(transitions, i)
       THEN /\ i' = i + 1
            /\ UNCHANGED debounced
       ELSE /\ debounced' = Append(debounced, transitions[i + 1])
            /\ i' = i + 1
    /\ UNCHANGED <<pc, rows, last, transitions, frames_vars, decode_vars, stats_vars>>

\* one iteration of "while i < len(transitions)"
DebounceStep ==
    /\ pc = "debounce"
    /\ i < Len(transitions)
    /\ IF IsGlitch(transitions, i)
       THEN /\ i' = i + 2
            /\ UNCHANGED debounced
       ELSE /\ debounced' = Append(debounced, transitions[i + 1])
            /\ i' = i + 1
    /\ UNCHANGED <<pc, rows, last, transitions, frames_vars, decode_vars, stats_vars>>

\* return debounced
ExtractReturn ==
    /\ pc = "debounce"
    /\ i >= Len(transitions)
    /\ pc' = "extract_done"
    /\ UNCHANGED <<extract_vars, frames_vars, decode_vars, stats_vars>>

----------------------------------------------------------------------------
(* SBusFrame.get_frames *)

FirstTimes == {1000, 2000, 2001, 3000}
Gaps == {1000, 2000, 2001}

\* time-ordered transition lists with alternating levels
RECURSIVE TransitionLists(_)
TransitionLists(n) ==
    IF n = 0 THEN {<<>>}
    ELSE IF n = 1 THEN {<<>>} \cup {<< <<t, v>> >> : t \in FirstTimes, v \in {0, 1}}
    ELSE LET shorter == TransitionLists(n - 1)
         IN shorter \cup
            {Append(s, <<s[Len(s)][1] + g, 1 - s[Len(s)][2]>>) :
                s \in {q \in shorter : Len(q) = n - 1}, g \in Gaps}

IdleFrames ==
    /\ gf_transitions = <<>>
    /\ gf_k = 0
    /\ result = <<>>
    /\ current_frame = <<>>
    /\ gf_last = 0

InitFrames ==
    /\ gf_transitions \in TransitionLists(MaxTransitions)
    /\ gf_k = 0
    /\ result = <<>>
    /\ current_frame = <<>>
    /\ gf_last = 0

OpensFrame_AtGap(t, prev) == t - prev >= FrameGap

\* the test of line 96
OpensFrame(t, prev) == t - prev > FrameGap

\* one iteration of "for t, value in transitions"
GetFramesStep ==
    /\ pc = "get_frames"
    /\ gf_k < Len(gf_transitions)
    /\ LET t == gf_transitions[gf_k + 1][1]
           value == gf_transitions[gf_k + 1][2]
           opens == OpensFrame(t, gf_last)
           appended == IF opens /\ current_frame # <<>>
                       THEN Append(result, current_frame[1])
                       ELSE result
           frame == IF opens THEN << <<>> >> ELSE current_frame
       IN /\ result' = appended
          /\ current_frame' = IF frame # <<>>
                              THEN <<Append(frame[1], <<t, value>>)>>
                              ELSE frame
          /\ gf_last' = t
    /\ gf_k' = gf_k + 1
    /\ UNCHANGED <<pc, gf_transitions, extract_vars, decode_vars, stats_vars>>

\* return result
GetFramesReturn ==
    /\ pc = "get_frames"
    /\ gf_k = Len(gf_transitions)
    /\ pc' = "get_frames_done"
    /\ UNCHANGED <<frames_vars, extract_vars, decode_vars, stats_vars>>

----------------------------------------------------------------------------
(* SBusFrame: start, end, is_after, value, byte, is_lost *)

start(frame) == frame[1][1]

end(frame) == frame[Len(frame)][1]

is_after_Strict(frame, t) == start(frame) > t

is_after_Before(frame, t) == start(frame) <= t

is_after(frame, t) == start(frame) >= t

\* the loop of value(), from the n-th transition on, v the level so far
RECURSIVE value_from(_, _, _, _)
value_from(frame, n, time, v) ==
    IF n > Len(frame) THEN v
    ELSE IF frame[n][1] > time THEN v
    ELSE value_from(frame, n + 1, time, frame[n][2])

value(frame, time) == value_from(frame, 1, time, 0)

Pow2(n) == CASE n = 0 -> 1 [] n = 1 -> 2 [] n = 2 -> 4 [] n = 3 -> 8
             [] n = 4 -> 16 [] n = 5 -> 32 [] n = 6 -> 64 [] n = 7 -> 128

\* the loop of byte(), from bit on, acc the value so far
RECURSIVE byte_from(_, _, _, _)
byte_from(frame, t, bit, acc) ==
    IF bit = 8 THEN acc
    ELSE byte_from(frame, t + BitPeriod, bit + 1, acc + (1 - value(frame, t)) * Pow2(bit))

byte_EarlySample(frame, n) ==
    byte_from(frame, start(frame) + BytePeriod * n + FirstBitOffset - BitPeriod, 0, 0)

byte(frame, n) == byte_from(frame, start(frame) + BytePeriod * n + FirstBitOffset, 0, 0)

RECURSIVE BitAnd(_, _)
BitAnd(a, b) ==
    IF a = 0 \/ b = 0 THEN 0
    ELSE (a % 2) * (b % 2) + 2 * BitAnd(a \div 2, b \div 2)

is_lost(frame) == BitAnd(byte(frame, StatusByte), LostMask)

(* Frames under test: the line idles at 1 from s on, the 8 bits of b are put
   on the line inverted, least significant first, bit k from
   s + 120*n + 10 + 10*k + j on (an edge only where the level changes). *)
Bit(b, k) == (b \div Pow2(k)) % 2

RECURSIVE EncodeBits(_, _, _, _)
EncodeBits(tr, t0, b, k) ==
    IF k = 8 THEN tr
    ELSE LET lvl == 1 - Bit(b, k)
         IN EncodeBits(IF lvl # tr[Len(tr)][2]
                       THEN Append(tr, <<t0 + BitPeriod * k, lvl>>) ELSE tr,
                       t0, b, k + 1)

EncodedFrame(s, n, b, j) ==
    EncodeBits(<< <<s, 1>> >>, s + BytePeriod * n + BitPeriod + j, b, 0)

\* the frame with a last edge at e
WithEnd(frame, e) ==
    IF e > end(frame) THEN Append(frame, <<e, 1 - frame[Len(frame)][2]>>) ELSE frame

Jitters == {0, 5, 6}
Starts == {0, 3000}

IdleDecode ==
    /\ enc = <<>>
    /\ dframe = <<>>
    /\ returned = <<>>
    /\ lost = <<>>

InitDecode ==
    /\ enc \in [b : 0..255, s : Starts, j : Jitters]
    /\ dframe = EncodedFrame(enc.s, StatusByte, enc.b, enc.j)
    /\ returned = <<>>
    /\ lost = <<>>

\* a call of frame.byte(23)
CallByte ==
    /\ pc = "decode"
    /\ Len(returned) < MaxCalls
    /\ returned' = Append(returned, byte(dframe, StatusByte))
    /\ UNCHANGED <<pc, enc, dframe, lost, extract_vars, frames_vars, stats_vars>>

\* a call of frame.is_lost()
CallIsLost ==
    /\ pc = "decode"
    /\ lost = <<>>
    /\ lost' = <<is_lost(dframe)>>
    /\ UNCHANGED <<pc, enc, dframe, returned, extract_vars, frames_vars, stats_vars>>

IdleObject ==
    /\ trigger_transitions = <<>>
    /\ sbus_frames = <<>>
    /\ highval = 0
    /\ lowval = 0

----------------------------------------------------------------------------
(* LatencyStatistics.iter *)

\* the inner loop "for frame in self.sbus_frames", from the n-th frame on:
\* the index of the frame that is yielded, 0 when the loop ends without one
RECURSIVE first_match(_, _, _, _)
first_match(frames, n, t0, expected) ==
    IF n > Len(frames) THEN 0
    ELSE IF is_after(frames[n], t0) /\ byte(frames[n], ChannelByte) = expected THEN n
    ELSE first_match(frames, n + 1, t0, expected)

\* the generator resumed with the outer loop at the p-th trigger transition:
\* the next tuple it yields and where it stops, or its exhaustion
RECURSIVE iter(_)
iter(p) ==
    IF p > Len(trigger_transitions) THEN [found |-> FALSE, pos |-> p]
    ELSE LET t0 == trigger_transitions[p][1]
             val == trigger_transitions[p][2]
             expected == IF val = 1 THEN highval ELSE lowval
             m == first_match(sbus_frames, 1, t0, expected)
         IN IF m # 0
            THEN [found |-> TRUE, pos |-> p + 1,
                  tuple |-> <<t0, val, sbus_frames[m], end(sbus_frames[m]) - t0>>]
            ELSE iter(p + 1)

----------------------------------------------------------------------------
(* LatencyStatistics.print *)

\* "%.1f" % (num / den): the tenths of the quotient, rounded to nearest, ties
\* to even (num >= 0, den > 0)
Format1(num, den) ==
    LET unit == 100 * den
        q == num \div unit
        r == num % unit
    IN IF 2 * r > unit THEN q + 1
       ELSE IF 2 * r = unit THEN q + (q % 2)
       ELSE q

\* "%f" % (t / 1000): seconds and millionths of a second
FormatSeconds(t) == <<t \div 1000000, t % 1000000>>

PrintLoop_MaxiAsMini ==
    /\ pc = "print"
    /\ iter(pos).found
    /\ LET next == iter(pos)
           t0 == next.tuple[1]
           frame == next.tuple[3]
           delay == next.tuple[4]
       IN /\ pos' = next.pos
          /\ yielded' = Append(yielded, next.tuple)
          /\ count' = count + 1
          /\ total' = total + delay
          /\ mini' = IF mini = <<>> \/ delay < mini[1] THEN <<delay, t0, frame>> ELSE mini
          /\ maxi' = IF maxi = <<>> \/ delay < maxi[1] THEN <<delay, t0, frame>> ELSE maxi
    /\ UNCHANGED <<pc, stdout, object_vars, export_vars,
                   extract_vars, frames_vars, decode_vars>>

\* one iteration of "for t0, val, frame, delay in self.iter()"
PrintLoop ==
    /\ pc = "print"
    /\ iter(pos).found
    /\ LET next == iter(pos)
           t0 == next.tuple[1]
           frame == next.tuple[3]
           delay == next.tuple[4]
       IN /\ pos' = next.pos
          /\ yielded' = Append(yielded, next.tuple)
          /\ count' = count + 1
          /\ total' = total + delay
          /\ mini' = IF mini = <<>> \/ delay < mini[1] THEN <<delay, t0, frame>> ELSE mini
          /\ maxi' = IF maxi = <<>> \/ delay > maxi[1] THEN <<delay, t0, frame>> ELSE maxi
    /\ UNCHANGED <<pc, stdout, object_vars, export_vars,
                   extract_vars, frames_vars, decode_vars>>

PrintReport_Guarded ==
    /\ pc = "print"
    /\ ~iter(pos).found
    /\ pos' = iter(pos).pos
    /\ IF count = 0
       THEN stdout' = << <<"Delay">>, <<"Count", count>>, <<"Average", 0>> >>
       ELSE stdout' = << <<"Delay">>, <<"Count", count>>,
                         <<"Average", Format1(total, count)>>,
                         <<"Mini", Format1(mini[1], 1), FormatSeconds(mini[2])>>,
                         <<"Maxi", Format1(maxi[1], 1), FormatSeconds(maxi[2])>> >>
    /\ pc' = "print_done"
    /\ UNCHANGED <<yielded, count, total, mini, maxi, object_vars, export_vars,
                   extract_vars, frames_vars, decode_vars>>

\* the generator is exhausted: the five print calls of lines 158 to 162
PrintReport ==
    /\ pc = "print"
    /\ ~iter(pos).found
    /\ pos' = iter(pos).pos
    /\ IF count = 0
       THEN /\ stdout' = << <<"Delay">>, <<"Count", count>> >>
            /\ pc' = "ZeroDivisionError"
       ELSE /\ stdout' = << <<"Delay">>, <<"Count", count>>,
                            <<"Average", Format1(total, count)>>,
                            <<"Mini", Format1(mini[1], 1), FormatSeconds(mini[2])>>,
                            <<"Maxi", Format1(maxi[1], 1), FormatSeconds(maxi[2])>> >>
            /\ pc' = "print_done"
    /\ UNCHANGED <<yielded, count, total, mini, maxi, object_vars, export_vars,
                   extract_vars, frames_vars, decode_vars>>

(* Inputs of the statistics *)
TriggerTimes == {0, 10000, 20000, 30000}

RECURSIVE TriggerLists(_)
TriggerLists(n) ==
    IF n = 0 THEN {<<>>}
    ELSE LET shorter == TriggerLists(n - 1)
         IN shorter \cup
            {Append(x[1], <<x[2], x[3]>>) :
                x \in {y \in {q \in shorter : Len(q) = n - 1} \X TriggerTimes \X {0, 1} :
                          \A m \in 1..(n - 1) : y[1][m][1] < y[2]}}

\* a frame whose byte 1 is b, from s to e
Frame(s, b, e) == WithEnd(EncodedFrame(s, ChannelByte, b, 0), e)

FrameLibrary ==
    {Frame(9000, 19, 12000), Frame(10000, 19, 12000), Frame(10000, 172, 13000),
     Frame(20000, 172, 22000), Frame(20000, 19, 22000)}

\* the statistics scenario: a first transition, then toggles at 1000, 2000 and
\* 3000 ms, each answered by a frame that ends 3, 5 and 4 ms after it
ScenarioInputs ==
    {[triggers |-> <<first, <<1000000, l[1]>>, <<2000000, l[2]>>, <<3000000, l[3]>> >>,
      frames |-> <<Frame(1000000 + o[1], IF l[1] = 1 THEN 19 ELSE 172, 1003000),
                   Frame(2000000 + o[2], IF l[2] = 1 THEN 19 ELSE 172, 2005000),
                   Frame(3000000 + o[3], IF l[3] = 1 THEN 19 ELSE 172, 3004000)>>] :
        first \in {<<0, 0>>, <<500000, 1>>},
        l \in [1..3 -> {0, 1}],
        o \in [1..3 -> {0, 1000}]}

IdlePrint ==
    /\ pos = 2
    /\ yielded = <<>>
    /\ count = 0
    /\ total = 0
    /\ mini = <<>>
    /\ maxi = <<>>
    /\ stdout = <<>>

IdleExport ==
    /\ existing = <<>>
    /\ path_exists = FALSE
    /\ path_content = <<>>
    /\ title = <<>>
    /\ append = FALSE
    /\ lines = <<>>
    /\ columns = 0
    /\ index = 0

InitStats ==
    /\ \/ /\ trigger_transitions \in TriggerLists(MaxTriggers)
          /\ sbus_frames \in SeqsUpTo(FrameLibrary, MaxFrames)
          /\ \E hl \in {<<19, 172>>, <<172, 19>>} : highval = hl[1] /\ lowval = hl[2]
       \/ /\ \E x \in ScenarioInputs :
                /\ trigger_transitions = x.triggers
                /\ sbus_frames = x.frames
          /\ highval = 19
          /\ lowval = 172
    /\ IdlePrint
    /\ IdleExport

----------------------------------------------------------------------------
(* LatencyStatistics.export and LatencyStatistics.append_to_line *)

Digits == <<"0", "1", "2", "3", "4", "5", "6", "7", "8", "9">>

RECURSIVE NatStr(_)
NatStr(n) ==
    IF n < 10 THEN <<Digits[n + 1]>>
    ELSE NatStr(n \div 10) \o <<Digits[(n % 10) + 1]>>

\* str(delay) of the float delay, in ms: the whole part, a point and the
\* decimals without trailing zeros, at least one
str(delay) ==
    LET a == IF delay < 0 THEN 0 - delay ELSE delay
        frac == a % 1000
        d1 == Digits[(frac \div 100) + 1]
        d2 == Digits[((frac \div 10) % 10) + 1]
        d3 == Digits[(frac % 10) + 1]
    IN (IF delay < 0 THEN <<"-">> ELSE <<>>)
       \o NatStr(a \div 1000) \o <<".">>
       \o (IF frac % 10 # 0 THEN <<d1, d2, d3>>
           ELSE IF frac % 100 # 0 THEN <<d1, d2>>
           ELSE <<d1>>)

\* f.readlines(): the lines of a text, each with its newline
RECURSIVE readlines_from(_, _)
readlines_from(text, line) ==
    IF text = <<>> THEN (IF line = <<>> THEN <<>> ELSE <<line>>)
    ELSE IF Head(text) = "\n" THEN <<Append(line, "\n")>> \o readlines_from(Tail(text), <<>>)
    ELSE readlines_from(Tail(text), Append(line, Head(text)))

readlines(text) == readlines_from(text, <<>>)

\* s.split(";")
RECURSIVE split_from(_, _)
split_from(text, field) ==
    IF text = <<>> THEN <<field>>
    ELSE IF Head(text) = ";" THEN <<field>> \o split_from(Tail(text), <<>>)
    ELSE split_from(Tail(text), Append(field, Head(text)))

split(text) == split_from(text, <<>>)

Whitespace == {" ", "\n", "\t", "\r"}

\* s.strip()
RECURSIVE lstrip(_)
lstrip(text) ==
    IF text # <<>> /\ Head(text) \in Whitespace THEN lstrip(Tail(text)) ELSE text

RECURSIVE rstrip(_)
rstrip(text) ==
    IF text # <<>> /\ text[Len(text)] \in Whitespace
    THEN rstrip(SubSeq(text, 1, Len(text) - 1)) ELSE text

strip(text) == rstrip(lstrip(text))

RECURSIVE Repeat(_, _)
Repeat(c, n) == IF n = 0 THEN <<>> ELSE <<c>> \o Repeat(c, n - 1)

append_to_line_NoPadding(s, idx, lns, cols) ==
    (IF cols = 0 THEN s
     ELSE IF idx < Len(lns) THEN strip(lns[idx + 1]) \o <<";">> \o s
     ELSE s)
    \o <<"\n">>

append_to_line_NoNewline(s, idx, lns, cols) ==
    IF cols = 0 THEN s
    ELSE IF idx < Len(lns) THEN strip(lns[idx + 1]) \o <<";">> \o s \o <<"\n">>
    ELSE Repeat(";", cols) \o s \o <<"\n">>

\* the text append_to_line writes to f
append_to_line(s, idx, lns, cols) ==
    (IF cols = 0 THEN s
     ELSE IF idx < Len(lns) THEN strip(lns[idx + 1]) \o <<";">> \o s
     ELSE Repeat(";", cols) \o s)
    \o <<"\n">>

\* lines 133 to 140: the file is read when appending, then opened for writing
\* and the title row written
ExportOpen ==
    /\ pc = "export"
    /\ LET reads == append /\ path_exists
           lns == IF reads THEN readlines(path_content) ELSE <<>>
       IN IF reads /\ lns = <<>>
          THEN /\ pc' = "IndexError"
               /\ lines' = lns
               /\ UNCHANGED <<path_exists, path_content, columns, index>>
          ELSE /\ lines' = lns
               /\ columns' = IF reads THEN Len(split(lns[1])) ELSE 0
               /\ path_exists' = TRUE
               /\ path_content' = append_to_line(title, 0, lns, columns')
               /\ index' = 1
               /\ pc' = "export_loop"
    /\ UNCHANGED <<existing, title, append, object_vars, iter_vars, print_vars,
                   extract_vars, frames_vars, decode_vars>>

\* one iteration of "for t0, val, frame, delay in self.iter()"
ExportLoop ==
    /\ pc = "export_loop"
    /\ iter(pos).found
    /\ LET next == iter(pos)
       IN /\ pos' = next.pos
          /\ yielded' = Append(yielded, next.tuple)
          /\ path_content' =
                path_content \o append_to_line(str(next.tuple[4]), index, lines, columns)
    /\ index' = index + 1
    /\ UNCHANGED <<pc, existing, path_exists, title, append, lines, columns,
                   object_vars, print_vars,
                   extract_vars, frames_vars, decode_vars>>

\* the generator is exhausted: the file is closed
ExportClose ==
    /\ pc = "export_loop"
    /\ ~iter(pos).found
    /\ pos' = iter(pos).pos
    /\ pc' = "export_done"
    /\ UNCHANGED <<yielded, export_vars, object_vars, print_vars,
                   extract_vars, frames_vars, decode_vars>>

(* Inputs of the export *)
FileChars == {"A", ";", " ", "\n"}

Titles == {<<"B">>, <<"B", "2">>}

ExportFrames ==
    {<<>>,
     <<Frame(10000, 19, 12000)>>,
     <<Frame(10000, 19, 12000), Frame(20000, 172, 22500)>>}

InitExport ==
    /\ trigger_transitions = << <<0, 0>>, <<10000, 1>>, <<20000, 0>> >>
    /\ sbus_frames \in ExportFrames
    /\ highval = 19
    /\ lowval = 172
    /\ IdlePrint
    /\ existing \in {<<>>} \cup {<<text>> : text \in SeqsUpTo(FileChars, MaxFileLen)}
    /\ path_exists = (existing # <<>>)
    /\ path_content = (IF existing # <<>> THEN existing[1] ELSE <<>>)
    /\ title \in Titles
    /\ append \in BOOLEAN
    /\ lines = <<>>
    /\ columns = 0
    /\ index = 0

----------------------------------------------------------------------------
(* Properties of build_transitions_array *)

\* C3: (a) no two adjacent entries of the debounced list carry the same level,
\* and (b) of two immediately adjacent candidate transitions less than
\* 0.002 ms apart, never both appear in the debounced list.
C3_Debounce ==
    /\ \A n \in 1..(Len(debounced) - 1) : debounced[n][2] # debounced[n + 1][2]
    /\ \A n \in 1..(Len(transitions) - 1) :
          transitions[n + 1][1] - transitions[n][1] < DebounceWindow
              => ~(transitions[n] \in Range(debounced)
                   /\ transitions[n + 1] \in Range(debounced))

\* the function has returned at least two entries from a candidate list in which
\* three candidates in a row are each closer than the window to the next
C3_Witness ==
    /\ pc = "extract_done"
    /\ Len(debounced) >= 2
    /\ \E n \in 1..(Len(transitions) - 2) :
          /\ transitions[n + 1][1] - transitions[n][1] < DebounceWindow
          /\ transitions[n + 2][1] - transitions[n + 1][1] < DebounceWindow
          /\ transitions[n + 2] \in Range(debounced)

----------------------------------------------------------------------------
(* Properties of SBusFrame.get_frames *)

RECURSIVE Flatten(_)
Flatten(frames) ==
    IF frames = <<>> THEN <<>> ELSE frames[1] \o Flatten(Tail(frames))

\* the frames built so far: the emitted ones and the one still open
AllFrames == result \o current_frame

\* C1: concatenating the transitions of the returned frames, in order,
\* reproduces the input list exactly.
C1_Concatenation ==
    pc = "get_frames_done" => Flatten(result) = gf_transitions

\* C6: of two consecutive transitions, a gap above 2 ms makes the second the
\* first transition of a new frame, never in the frame of the first; a gap of
\* at most 2 ms starts no frame at the second, and when both are in a frame
\* it is the same frame.
C6_GapRule ==
    \A n \in 1..(gf_k - 1) :
        LET a == gf_transitions[n]
            b == gf_transitions[n + 1]
        IN IF b[1] - a[1] > 2000
           THEN /\ \E f \in 1..Len(AllFrames) : AllFrames[f][1] = b
                /\ \A f \in 1..Len(AllFrames) :
                      ~(a \in Range(AllFrames[f]) /\ b \in Range(AllFrames[f]))
           ELSE /\ \A f \in 1..Len(AllFrames) : AllFrames[f][1] # b
                /\ \A f, g \in 1..Len(AllFrames) :
                      a \in Range(AllFrames[f]) /\ b \in Range(AllFrames[g]) => f = g

\* all transitions consumed, with a gap of exactly 2 ms inside one frame and a
\* gap above 2 ms between two frames
C6_Witness ==
    /\ pc = "get_frames_done"
    /\ \E n \in 1..(gf_k - 1) :
          /\ gf_transitions[n + 1][1] - gf_transitions[n][1] = 2000
          /\ \E f \in 1..Len(AllFrames) :
                {gf_transitions[n], gf_transitions[n + 1]} \subseteq Range(AllFrames[f])
    /\ \E n \in 1..(gf_k - 1) :
          /\ gf_transitions[n + 1][1] - gf_transitions[n][1] = 2001
          /\ \E f \in 1..Len(result) : gf_transitions[n] \in Range(result[f])

----------------------------------------------------------------------------
(* Properties of SBusFrame.byte and SBusFrame.is_lost *)

\* the line level at an instant: the level of the last transition at or before it
LevelAt(frame, time) ==
    LET before == {n \in 1..Len(frame) : frame[n][1] <= time}
    IN IF before = {} THEN 0
       ELSE frame[CHOOSE n \in before : \A m \in before : m <= n][2]

\* the level at the k-th sampling instant of byte n is 1 - bit k of b
Encodes(frame, n, b) ==
    \A k \in 0..7 : LevelAt(frame, start(frame) + 120 * n + 15 + 10 * k) = 1 - Bit(b, k)

\* C7: when the line level at the 8 sampling instants of byte 23 is the
\* inverted bit of b, every call of byte(23) returns b, is_lost() is truthy
\* exactly when b & 0x04 is non-zero, and the calls leave the frame as built.
C7_RoundTrip ==
    Encodes(dframe, 23, enc.b) =>
        /\ \A n \in 1..Len(returned) : returned[n] = enc.b
        /\ lost # <<>> => ((lost[1] # 0) <=> ((enc.b \div 4) % 2 = 1))
        /\ lost # <<>> /\ enc.b = 4 => lost[1] # 0
        /\ lost # <<>> /\ enc.b = 0 => lost[1] = 0
        /\ dframe = EncodedFrame(enc.s, 23, enc.b, enc.j)

\* byte(23) was called twice and is_lost() once on a frame that encodes 0x04
\* with its edges exactly at the sampling instants
C7_Witness ==
    /\ pc = "decode"
    /\ enc.b = 4
    /\ enc.j = 5
    /\ Encodes(dframe, 23, enc.b)
    /\ Len(returned) = 2
    /\ lost # <<>>

----------------------------------------------------------------------------
(* Properties of LatencyStatistics.iter and LatencyStatistics.print *)

PrintEnded == pc \in {"print_done", "ZeroDivisionError"}

\* the frames that answer the j-th trigger transition
Matches(j) ==
    {n \in 1..Len(sbus_frames) :
        /\ start(sbus_frames[n]) >= trigger_transitions[j][1]
        /\ byte(sbus_frames[n], 1) =
              (IF trigger_transitions[j][2] = 1 THEN highval ELSE lowval)}

\* the trigger transitions, the first excepted, that some frame answers
Matched == {j \in 2..Len(trigger_transitions) : Matches(j) # {}}

Rank(j) == Cardinality({x \in Matched : x <= j})

Lowest(S) == CHOOSE n \in S : \A m \in S : n <= m

\* every trigger transition but the first yields one tuple when a frame answers
\* it and none otherwise; the frame is the lowest-index answering frame, the
\* delay is its end minus the trigger time, the tuples are in trigger order
IterRule ==
    /\ Len(yielded) <= Cardinality(Matched)
    /\ PrintEnded => Len(yielded) = Cardinality(Matched)
    /\ \A j \in Matched :
          Rank(j) <= Len(yielded) =>
              LET frame == sbus_frames[Lowest(Matches(j))]
                  t0 == trigger_transitions[j][1]
              IN yielded[Rank(j)] = <<t0, trigger_transitions[j][2], frame, end(frame) - t0>>

\* triggers [(0,0),(10,1),(20,0)], a frame ending at 12 ms decoding 0x13 and a
\* frame ending at 22 ms decoding 0xAC
CorrelationScenario ==
    /\ PrintEnded
    /\ trigger_transitions = << <<0, 0>>, <<10000, 1>>, <<20000, 0>> >>
    /\ highval = 19
    /\ lowval = 172
    /\ Len(sbus_frames) = 2
    /\ end(sbus_frames[1]) = 12000
    /\ byte(sbus_frames[1], 1) = 19
    /\ end(sbus_frames[2]) = 22000
    /\ byte(sbus_frames[2], 1) = 172

TwoDelaysOfTwo ==
    /\ Len(yielded) = 2
    /\ yielded[1][1] = 10000
    /\ yielded[1][4] = 2000
    /\ yielded[2][1] = 20000
    /\ yielded[2][4] = 2000

\* C2 as stated: the rule of iter, and the scenario gives exactly two tuples,
\* both with delay 2 ms.
C2_Original ==
    /\ IterRule
    /\ CorrelationScenario => TwoDelaysOfTwo

\* C2 as amended: the rule of iter, and the scenario gives exactly two tuples,
\* both with delay 2 ms, when the first frame starts at or after 10 ms and the
\* second at or after 20 ms.
C2_Amended ==
    /\ IterRule
    /\ CorrelationScenario
          /\ start(sbus_frames[1]) >= 10000
          /\ start(sbus_frames[2]) >= 20000
          => TwoDelaysOfTwo

\* the scenario with both frames starting with their triggers has ended
C2_Witness ==
    /\ CorrelationScenario
    /\ start(sbus_frames[1]) = 10000
    /\ start(sbus_frames[2]) = 20000
    /\ pc = "print_done"

\* delays [3.0, 5.0, 4.0] produced by triggers at [1000, 2000, 3000] ms
StatisticsScenario ==
    /\ pc = "print_done"
    /\ Len(yielded) = 3
    /\ <<yielded[1][1], yielded[2][1], yielded[3][1]>> = <<1000000, 2000000, 3000000>>
    /\ <<yielded[1][4], yielded[2][4], yielded[3][4]>> = <<3000, 5000, 4000>>

\* C4 as stated: average 4.0, minimum 3.0 at t = 1.0 s, maximum 5.0 at
\* t = 3.0 s.
C4_Original ==
    StatisticsScenario =>
        /\ stdout[3] = <<"Average", 40>>
        /\ stdout[4] = <<"Mini", 30, <<1, 0>> >>
        /\ stdout[5] = <<"Maxi", 50, <<3, 0>> >>

\* C4 as amended: average 4.0, minimum 3.0 at t = 1.0 s, maximum 5.0 at
\* t = 2.0 s, the time of the trigger whose delay is 5.0.
C4_Amended ==
    StatisticsScenario =>
        /\ stdout[3] = <<"Average", 40>>
        /\ stdout[4] = <<"Mini", 30, <<1, 0>> >>
        /\ stdout[5] = <<"Maxi", 50, <<2, 0>> >>

C4_Witness == StatisticsScenario /\ Len(stdout) = 5

\* C8: print ends in the division by zero, before any statistic is printed,
\* when no trigger transition after the first has a matching frame, and
\* completes with the statistics when one has.
C8_EmptyFails ==
    /\ pc = "ZeroDivisionError" =>
          /\ Matched = {}
          /\ \A n \in 1..Len(stdout) : stdout[n][1] \in {"Delay", "Count"}
    /\ pc = "print_done" =>
          /\ Matched # {}
          /\ Len(stdout) = 5

\* print failed although there were trigger transitions and frames
C8_Witness ==
    /\ pc = "ZeroDivisionError"
    /\ Len(trigger_transitions) >= 2
    /\ sbus_frames # <<>>

\* C9: every yielded tuple has delay >= 0 and a frame that starts at or after
\* its trigger time, and at most len(trigger_transitions) - 1 tuples are
\* yielded (none for an empty or one-element list).
C9_YieldBounds ==
    /\ \A n \in 1..Len(yielded) :
          /\ yielded[n][4] >= 0
          /\ start(yielded[n][3]) >= yielded[n][1]
    /\ Len(yielded) <= (IF Len(trigger_transitions) = 0 THEN 0
                        ELSE Len(trigger_transitions) - 1)

\* one frame, held once in the frame list, is the matched frame of two triggers
C9_Witness ==
    /\ PrintEnded
    /\ \E m, n \in 1..Len(yielded) :
          /\ m < n
          /\ yielded[m][3] = yielded[n][3]
          /\ Cardinality({f \in 1..Len(sbus_frames) : sbus_frames[f] = yielded[n][3]}) = 1

----------------------------------------------------------------------------
(* Properties of LatencyStatistics.export *)

Newlines(text) == {n \in 1..Len(text) : text[n] = "\n"}

\* the number of lines of a text
NumLines(text) ==
    Cardinality(Newlines(text))
        + (IF text # <<>> /\ text[Len(text)] # "\n" THEN 1 ELSE 0)

\* the position of the r-th newline of a text
NewlineAt(text, r) ==
    CHOOSE p \in Newlines(text) : Cardinality({q \in Newlines(text) : q <= p}) = r

\* line r of a text, r from 0, without its newline
LineOf(text, r) ==
    LET from == IF r = 0 THEN 1 ELSE NewlineAt(text, r) + 1
        to == IF Cardinality(Newlines(text)) > r THEN NewlineAt(text, r + 1) - 1
              ELSE Len(text)
    IN SubSeq(text, from, to)

Trimmed(text) ==
    LET inked == {n \in 1..Len(text) : text[n] \notin Whitespace}
    IN IF inked = {} THEN <<>>
       ELSE SubSeq(text, CHOOSE n \in inked : \A m \in inked : n <= m,
                         CHOOSE n \in inked : \A m \in inked : m <= n)

\* the value of output row r: the title, then the delays in order
NewValue(r) == IF r = 0 THEN title ELSE str(yielded[r][4])

\* output row r as the merge rule gives it
MergedRow(r) ==
    IF append /\ existing # <<>>
    THEN LET old == existing[1]
             L == NumLines(old)
             C == 1 + Cardinality({n \in 1..Len(LineOf(old, 0)) : LineOf(old, 0)[n] = ";"})
         IN IF r < L THEN Trimmed(LineOf(old, r)) \o <<";">> \o NewValue(r)
            ELSE Repeat(";", C) \o NewValue(r)
    ELSE NewValue(r)

\* C5: row 0 is the title and row r the r-th delay, merged with existing line r
\* (trimmed) and a semicolon when appending and r < L, preceded by C
\* semicolons when appending and r >= L, alone otherwise; title "B" and one
\* value appended to the file "A" give "A;B" as row 0.
C5_Merge ==
    pc = "export_done" =>
        /\ \A r \in 0..Len(yielded) :
              /\ r < NumLines(path_content)
              /\ LineOf(path_content, r) = MergedRow(r)
        /\ append /\ existing = << <<"A">> >> /\ title = <<"B">> /\ Len(yielded) = 1
              => LineOf(path_content, 0) = <<"A", ";", "B">>

\* title "B" and one value were appended to the file "A"
C5_Witness ==
    /\ pc = "export_done"
    /\ append
    /\ existing = << <<"A">> >>
    /\ title = <<"B">>
    /\ Len(yielded) = 1
    /\ LineOf(path_content, 1) = <<";", "2", ".", "0">>

----------------------------------------------------------------------------
(* Specifications *)

InitE == pc = "read" /\ InitExtract /\ IdleFrames /\ IdleDecode /\ IdleObject /\ IdlePrint /\ IdleExport
NextE == ReadRow \/ ReadEnd \/ DebounceStep \/ ExtractReturn
SpecExtract == InitE /\ [][NextE]_vars

InitF == pc = "get_frames" /\ IdleExtract /\ InitFrames /\ IdleDecode /\ IdleObject /\ IdlePrint /\ IdleExport
NextF == GetFramesStep \/ GetFramesReturn
SpecFrames == InitF /\ [][NextF]_vars

InitD == pc = "decode" /\ IdleExtract /\ IdleFrames /\ InitDecode /\ IdleObject /\ IdlePrint /\ IdleExport
NextD == CallByte \/ CallIsLost
SpecDecode == InitD /\ [][NextD]_vars

InitS == pc = "print" /\ IdleExtract /\ IdleFrames /\ IdleDecode /\ InitStats
NextS == PrintLoop \/ PrintReport
SpecStats == InitS /\ [][NextS]_vars

InitX == pc = "export" /\ IdleExtract /\ IdleFrames /\ IdleDecode /\ InitExport
NextX == ExportOpen \/ ExportLoop \/ ExportClose
SpecExport == InitX /\ [][NextX]_vars

====
